---- MODULE Spec2Model ----
(***************************************************************************)
(* State-machine model of firmware/bootloader/src/main.c, the STK500v2     *)
(* derived bootloader of the Pinoccio (ATmega256RFR2) board.               *)
(*                                                                         *)
(* The firmware is main(): a start-up sequence (reset cause capture,       *)
(* watchdog shutdown, UART set-up) followed by for(;;) around the          *)
(* bootloader loop: a byte-wise frame reader and a page operation on the   *)
(* program memory at the device cursor `address`.  The host on the serial  *)
(* link is the environment: it transmits STK500v2 frames, possibly with a  *)
(* corrupted byte, and may fall silent at any moment.                      *)
(***************************************************************************)
EXTENDS Integers, Sequences, FiniteSets, TLC

(***************************************************************************)
(* Target constants (avr/io.h for the ATmega256RFR2) and main.c's own.     *)
(***************************************************************************)
FLASHEND == 262143
SPM_PAGESIZE == 256
BOOTSIZE == 4096
APP_END == FLASHEND - (2 * BOOTSIZE) + 1

\* unsigned int has 16 bits.  address_t is uint32_t (RAMPZ is defined): the
\* sums formed from the cursor stay below FLASHEND + 2 * SPM_PAGESIZE, far
\* from 2^32, and are computed without reduction.
UIntModulus == 65536

\* states of the receive state machine
ST_START == 0
ST_GET_SEQ_NUM == 1
ST_MSG_SIZE_1 == 2
ST_MSG_SIZE_2 == 3
ST_GET_TOKEN == 4
ST_GET_DATA == 5
ST_GET_CHECK == 6
ST_PROCESS == 7

\* command.h (STK500v2, Atmel AVR068)
MESSAGE_START == 27
TOKEN == 14
CMD_SIGN_ON == 1
CMD_LEAVE_PROGMODE_ISP == 17
CMD_CHIP_ERASE_ISP == 18
CMD_PROGRAM_FLASH_ISP == 19
STATUS_CMD_FAILED == 192

\* bits of MCUSR and WDTCSR
PORF == 1
EXTRF == 2
WDRF == 8
WDE == 8
WDCE == 16

\* clock frequency, and the number of polls after which a byte wait expires
F_CPU == 16000000
MAX_TIME_COUNT == F_CPU \div 2

(***************************************************************************)
(* Bounds of the model.                                                    *)
(***************************************************************************)
\* the host numbers its frames 0..MaxSeq
MaxSeq == 1
\* transmissions the host makes before the link carries arbitrary bytes
MaxTransmissions == 2

(***************************************************************************)
(* Bit operations on bytes and words, as the C operators compute them.     *)
(***************************************************************************)
RECURSIVE BitOr(_, _)
BitOr(a, b) ==
  IF a = 0 THEN b
  ELSE IF b = 0 THEN a
  ELSE (IF (a % 2 = 1) \/ (b % 2 = 1) THEN 1 ELSE 0) + 2 * BitOr(a \div 2, b \div 2)

RECURSIVE BitXor(_, _)
BitXor(a, b) ==
  IF a = 0 THEN b
  ELSE IF b = 0 THEN a
  ELSE (IF (a % 2) # (b % 2) THEN 1 ELSE 0) + 2 * BitXor(a \div 2, b \div 2)

RECURSIVE BitAnd(_, _)
BitAnd(a, b) ==
  IF a = 0 \/ b = 0 THEN 0
  ELSE (IF (a % 2 = 1) /\ (b % 2 = 1) THEN 1 ELSE 0) + 2 * BitAnd(a \div 2, b \div 2)

(***************************************************************************)
(* The host side of the wire format: start marker, sequence number,        *)
(* 16-bit big-endian body length, token, body, and the exclusive-or of     *)
(* all preceding bytes as checksum.                                        *)
(***************************************************************************)
RECURSIVE Checksum(_)
Checksum(s) == IF s = <<>> THEN 0 ELSE BitXor(Head(s), Checksum(Tail(s)))

Frame(seq, body) ==
  LET hdr == <<MESSAGE_START, seq, Len(body) \div 256, Len(body) % 256, TOKEN>> \o body
  IN  hdr \o <<Checksum(hdr)>>

\* one byte of the frame hit by a single-bit error on the line
Corrupt(f, i) == [f EXCEPT ![i] = BitXor(f[i], 1)]

Seqs == 0 .. MaxSeq
Commands == {CMD_SIGN_ON, CMD_LEAVE_PROGMODE_ISP, CMD_CHIP_ERASE_ISP, CMD_PROGRAM_FLASH_ISP}
GoodFrames == {Frame(s, <<cmd>>) : s \in Seqs, cmd \in Commands}
CorruptFrames == {Corrupt(f, i) : f \in GoodFrames, i \in 1 .. 7}
\* a corrupted frame and, right behind it, the host's repetition of the frame
Retries == {Corrupt(f, i) \o f : f \in GoodFrames, i \in 1 .. 7}
Transmissions == GoodFrames \cup CorruptFrames \cup Retries

\* arbitrary traffic on the link: bytes other than the start marker, and the marker
RawBytes == {0, 1, MESSAGE_START}

IsGoodFrame(f) ==
  /\ Len(f) >= 6
  /\ f[1] = MESSAGE_START
  /\ f[5] = TOKEN
  /\ Len(f) = 6 + f[3] * 256 + f[4]
  /\ f[Len(f)] = Checksum(SubSeq(f, 1, Len(f) - 1))

VARIABLES
  pc,             \* position of main()
  address,        \* device cursor
  msgParseState,  \* state of the frame reader
  ii,             \* payload index
  msgLength,      \* declared length of the frame being read
  c,              \* last byte returned by recchar_timeout
  isLeave,        \* exit flag: leave-programming-mode
  isTimeout,      \* exit flag: a byte wait expired
  count,          \* poll counter of the last recchar_timeout call, at its return
  MCUSR,          \* reset-cause register
  GPIOR0,         \* general purpose register read by the application
  WDTCSR,         \* watchdog control register
  SREG_I,         \* global interrupt enable flag
  uartEnabled,    \* receiver and transmitter switched on
  erased,         \* pages of program memory erased and not yet written
  programmed,     \* pages of program memory written by a page commit
  pageBuffer,     \* word addresses staged in the page buffer, in order
  rwwBusy,        \* read access to the RWW section suspended
  wire,           \* bytes of the host's transmission not yet received
  txn,            \* the host's current (latest) transmission
  budget,         \* transmissions the host may still start
  completedAt,    \* bytes of txn received when the reader reached ST_PROCESS
  touched,        \* a page was erased since txn started
  sent,           \* bytes sent on the serial link
  appStarts,      \* number of jumps to the application entry address
  resetCause,     \* value of MCUSR at reset
  gpior0Writes    \* number of writes of GPIOR0 since reset

vars == <<pc, address, msgParseState, ii, msgLength, c, isLeave, isTimeout, count,
          MCUSR, GPIOR0, WDTCSR, SREG_I, uartEnabled,
          erased, programmed, pageBuffer, rwwBusy,
          wire, txn, budget, completedAt, touched,
          sent, appStarts, resetCause, gpior0Writes>>

locals == <<address, msgParseState, ii, msgLength, c, isLeave, isTimeout, count>>
regs == <<MCUSR, GPIOR0, WDTCSR, SREG_I, uartEnabled>>
flash == <<erased, programmed, pageBuffer, rwwBusy>>
host == <<wire, txn, budget, completedAt>>
observed == <<sent, appStarts, resetCause, gpior0Writes>>

ResetCauses == {PORF, EXTRF, WDRF}

\* the page of program memory that holds byte address a
PageOf(a) == a - (a % SPM_PAGESIZE)

InitAddress == (FLASHEND + 1) \div 2

Init ==
  /\ pc = "reset"
  /\ address = InitAddress
  /\ msgParseState = ST_START
  /\ ii = 0
  /\ msgLength = 0
  /\ c = 0
  /\ isLeave = 0
  /\ isTimeout = 0
  /\ count = 0
  /\ MCUSR \in ResetCauses
  /\ GPIOR0 = 0
  /\ WDTCSR = (IF MCUSR = WDRF THEN WDE ELSE 0)
  /\ SREG_I = 0
  /\ uartEnabled = FALSE
  /\ erased = {}
  /\ programmed = {}
  /\ pageBuffer = <<>>
  /\ rwwBusy = FALSE
  /\ wire = <<>>
  /\ txn = <<>>
  /\ budget = MaxTransmissions
  /\ completedAt = {}
  /\ touched = FALSE
  /\ sent = <<>>
  /\ appStarts = 0
  /\ resetCause = MCUSR
  /\ gpior0Writes = 0

(***************************************************************************)
(* Start-up, one action per statement.                                     *)
(***************************************************************************)
\* the copy placed after the reset-cause register was cleared
SaveResetCauseAfterClear ==
  /\ pc = "reset"
  /\ GPIOR0' = 0
  /\ gpior0Writes' = gpior0Writes + 1
  /\ pc' = "cli"
  /\ UNCHANGED <<locals, MCUSR, WDTCSR, SREG_I, uartEnabled, flash, host, touched,
                 sent, appStarts, resetCause>>

SaveResetCause ==
  /\ pc = "reset"
  /\ GPIOR0' = MCUSR
  /\ gpior0Writes' = gpior0Writes + 1
  /\ pc' = "cli"
  /\ UNCHANGED <<locals, MCUSR, WDTCSR, SREG_I, uartEnabled, flash, host, touched,
                 sent, appStarts, resetCause>>

DisableInterrupts ==
  /\ pc = "cli"
  /\ SREG_I' = 0
  /\ pc' = "mcusr"
  /\ UNCHANGED <<locals, MCUSR, GPIOR0, WDTCSR, uartEnabled, flash, host, touched, observed>>

ClearMCUSR ==
  /\ pc = "mcusr"
  /\ MCUSR' = 0
  /\ pc' = "wdce"
  /\ UNCHANGED <<locals, GPIOR0, WDTCSR, SREG_I, uartEnabled, flash, host, touched, observed>>

WatchdogChangeEnable ==
  /\ pc = "wdce"
  /\ WDTCSR' = BitOr(WDTCSR, BitOr(WDCE, WDE))
  /\ pc' = "wdoff"
  /\ UNCHANGED <<locals, MCUSR, GPIOR0, SREG_I, uartEnabled, flash, host, touched, observed>>

WatchdogOff ==
  /\ pc = "wdoff"
  /\ WDTCSR' = 0
  /\ pc' = "sei"
  /\ UNCHANGED <<locals, MCUSR, GPIOR0, SREG_I, uartEnabled, flash, host, touched, observed>>

EnableInterrupts ==
  /\ pc = "sei"
  /\ SREG_I' = 1
  /\ pc' = "uart"
  /\ UNCHANGED <<locals, MCUSR, GPIOR0, WDTCSR, uartEnabled, flash, host, touched, observed>>

InitUart ==
  /\ pc = "uart"
  /\ uartEnabled' = TRUE
  /\ pc' = "for"
  /\ UNCHANGED <<locals, MCUSR, GPIOR0, WDTCSR, SREG_I, flash, host, touched, observed>>

(***************************************************************************)
(* The frame reader: the switch on msgParseState applied to one byte.      *)
(***************************************************************************)
\* a byte of noise in ST_START also clears the stored length
ParseSwitchNoiseClearsLength(state, byte, len, idx) ==
  CASE state = ST_START ->
         [state |-> IF byte = MESSAGE_START THEN ST_MSG_SIZE_1 ELSE ST_START,
          len |-> IF byte = MESSAGE_START THEN len ELSE 0, idx |-> idx]
    [] state = ST_MSG_SIZE_1 ->
         [state |-> ST_MSG_SIZE_2, len |-> (byte * 256) % UIntModulus, idx |-> idx]
    [] state = ST_MSG_SIZE_2 ->
         [state |-> ST_GET_DATA, len |-> BitOr(len, byte), idx |-> 0]
    [] state = ST_GET_DATA ->
         [state |-> IF idx = len THEN ST_PROCESS ELSE ST_GET_DATA,
          len |-> len, idx |-> idx]
    [] OTHER ->
         [state |-> state, len |-> len, idx |-> idx]

ParseSwitch(state, byte, len, idx) ==
  CASE state = ST_START ->
         [state |-> IF byte = MESSAGE_START THEN ST_MSG_SIZE_1 ELSE ST_START,
          len |-> len, idx |-> idx]
    [] state = ST_MSG_SIZE_1 ->
         [state |-> ST_MSG_SIZE_2, len |-> (byte * 256) % UIntModulus, idx |-> idx]
    [] state = ST_MSG_SIZE_2 ->
         [state |-> ST_GET_DATA, len |-> BitOr(len, byte), idx |-> 0]
    [] state = ST_GET_DATA ->
         [state |-> IF idx = len THEN ST_PROCESS ELSE ST_GET_DATA,
          len |-> len, idx |-> idx]
    [] OTHER ->
         [state |-> state, len |-> len, idx |-> idx]

\* while ((!isLeave) && (!isTimeout))
MainCondition == isLeave = 0 /\ isTimeout = 0

\* the inner loop goes on after a byte wait has expired
ParseConditionIgnoresTimeout == msgParseState # ST_PROCESS /\ isLeave = 0

\* while ((msgParseState != ST_PROCESS) && (!isLeave) && (!isTimeout))
ParseCondition == msgParseState # ST_PROCESS /\ isLeave = 0 /\ isTimeout = 0

\* bytes of the current transmission the firmware has received
Received == Len(txn) - Len(wire)

(***************************************************************************)
(* The host starts a transmission while the firmware polls for a byte, or   *)
(* at any time after a byte wait has expired.                              *)
(***************************************************************************)
HostSend ==
  /\ \/ pc = "parse" /\ ParseCondition
     \/ isTimeout = 1
  /\ wire = <<>>
  /\ budget > 0
  /\ budget' = budget - 1
  /\ \E t \in Transmissions :
       /\ wire' = t
       /\ txn' = t
  /\ completedAt' = {}
  /\ touched' = FALSE
  /\ UNCHANGED <<pc, locals, regs, flash, observed>>

(***************************************************************************)
(* for(;;) and the bootloader loop.                                        *)
(***************************************************************************)
ForLoop ==
  /\ pc = "for"
  /\ pc' = "main"
  /\ UNCHANGED <<locals, regs, flash, host, touched, observed>>

MainLoopEnter ==
  /\ pc = "main"
  /\ MainCondition
  /\ msgParseState' = ST_START
  /\ pc' = "parse"
  /\ UNCHANGED <<address, ii, msgLength, c, isLeave, isTimeout, count, regs, flash,
                 host, touched, observed>>

MainLoopExit ==
  /\ pc = "main"
  /\ ~MainCondition
  /\ pc' = "for"
  /\ UNCHANGED <<locals, regs, flash, host, touched, observed>>

(***************************************************************************)
(* recchar_timeout: count starts at 0 and is incremented once per poll that *)
(* finds no byte; the wait expires when count > MAX_TIME_COUNT.  n is the  *)
(* number of polls that find the receiver empty before byte is there.      *)
(***************************************************************************)
\* the wait expires one poll early
recchar_timeoutEarly(n, byte) ==
  IF n >= MAX_TIME_COUNT
  THEN [c |-> 0, timedout |-> TRUE, count |-> MAX_TIME_COUNT]
  ELSE [c |-> byte, timedout |-> FALSE, count |-> n]

recchar_timeout(n, byte) ==
  IF n > MAX_TIME_COUNT
  THEN [c |-> 0, timedout |-> TRUE, count |-> MAX_TIME_COUNT + 1]
  ELSE [c |-> byte, timedout |-> FALSE, count |-> n]

\* polls before a byte that arrives in time: at once, or at the last poll
InTime == {0, MAX_TIME_COUNT}
\* polls before a byte that arrives too late, or never
TooLate == {MAX_TIME_COUNT + 1}

\* recchar_timeout returns the next byte of the transmission; then the switch
RecvByte ==
  /\ pc = "parse"
  /\ ParseCondition
  /\ wire # <<>>
  /\ \E n \in InTime :
       LET got == recchar_timeout(n, Head(wire))
           r == ParseSwitch(msgParseState, got.c, msgLength, ii) IN
         /\ c' = got.c
         /\ count' = got.count
         /\ isTimeout' = IF got.timedout THEN 1 ELSE isTimeout
         /\ wire' = IF got.timedout THEN wire ELSE Tail(wire)
         /\ msgParseState' = r.state
         /\ msgLength' = r.len
         /\ ii' = r.idx
         /\ completedAt' = IF r.state = ST_PROCESS
                           THEN completedAt \cup
                                  {IF got.timedout THEN Received ELSE Received + 1}
                           ELSE completedAt
  /\ UNCHANGED <<pc, address, isLeave, regs, flash, txn, budget, touched, observed>>

\* recchar_timeout returns a byte of arbitrary traffic; then the switch
RecvRaw ==
  /\ pc = "parse"
  /\ ParseCondition
  /\ wire = <<>>
  /\ \E b \in RawBytes, n \in InTime :
       LET got == recchar_timeout(n, b)
           r == ParseSwitch(msgParseState, got.c, msgLength, ii) IN
         /\ c' = got.c
         /\ count' = got.count
         /\ isTimeout' = IF got.timedout THEN 1 ELSE isTimeout
         /\ msgParseState' = r.state
         /\ msgLength' = r.len
         /\ ii' = r.idx
  /\ budget' = 0
  /\ txn' = <<>>
  /\ completedAt' = {}
  /\ touched' = FALSE
  /\ UNCHANGED <<pc, address, isLeave, regs, flash, wire, observed>>

\* recchar_timeout gives up: *timedout = 1, returns 0; then the switch
RecvTimeout ==
  /\ pc = "parse"
  /\ ParseCondition
  /\ \E n \in TooLate :
       LET got == recchar_timeout(n, 0)
           r == ParseSwitch(msgParseState, got.c, msgLength, ii) IN
         /\ c' = got.c
         /\ count' = got.count
         /\ isTimeout' = IF got.timedout THEN 1 ELSE isTimeout
         /\ msgParseState' = r.state
         /\ msgLength' = r.len
         /\ ii' = r.idx
         /\ completedAt' = IF r.state = ST_PROCESS /\ txn # <<>>
                           THEN completedAt \cup {Received} ELSE completedAt
  /\ UNCHANGED <<pc, address, isLeave, regs, flash, wire, txn, budget,
                 touched, observed>>

ParseDone ==
  /\ pc = "parse"
  /\ ~ParseCondition
  /\ pc' = "erase"
  /\ UNCHANGED <<locals, regs, flash, host, touched, observed>>

(***************************************************************************)
(* The page operation at the device cursor.                                *)
(***************************************************************************)
\* the do-while loop: tempAddress starts at the cursor and moves on by 2 while
\* size, starting at SPM_PAGESIZE (even), is reduced by 2 until it is 0; the
\* word addresses passed to boot_page_fill, in order
\* tempAddress moved on by a byte, size reduced by one, per word staged
FillLoopByByte(tempAddress, size) ==
  [k \in 1 .. size |-> tempAddress + (k - 1)]

FillLoop(tempAddress, size) ==
  [k \in 1 .. (size \div 2) |-> tempAddress + 2 * (k - 1)]

\* the boundary test without the width of the page that comes next
NextAddressWrapLate(a) ==
  LET advanced == a + SPM_PAGESIZE
  IN  IF advanced > APP_END + 1
      THEN (FLASHEND + 1) \div 2
      ELSE advanced

\* the cursor advanced by the width of a word instead of a page
NextAddressByWord(a) ==
  LET advanced == a + 2
  IN  IF advanced + SPM_PAGESIZE > APP_END + 1
      THEN (FLASHEND + 1) \div 2
      ELSE advanced

\* the cursor reset to the bottom of program memory
NextAddressWrapToZero(a) ==
  LET advanced == a + SPM_PAGESIZE
  IN  IF advanced + SPM_PAGESIZE > APP_END + 1
      THEN 0
      ELSE advanced

\* address += SPM_PAGESIZE; if (address + SPM_PAGESIZE > APP_END + 1) address = ...
NextAddress(a) ==
  LET advanced == a + SPM_PAGESIZE
  IN  IF advanced + SPM_PAGESIZE > APP_END + 1
      THEN (FLASHEND + 1) \div 2
      ELSE advanced

PageErase ==
  /\ pc = "erase"
  /\ erased' = erased \cup {PageOf(address)}
  /\ programmed' = programmed \ {PageOf(address)}
  /\ rwwBusy' = TRUE
  /\ touched' = (txn # <<>>)
  /\ pc' = "fill"
  /\ UNCHANGED <<locals, regs, pageBuffer, host, observed>>

PageFill ==
  /\ pc = "fill"
  /\ pageBuffer' = FillLoop(address, SPM_PAGESIZE)
  /\ pc' = "write"
  /\ UNCHANGED <<locals, regs, erased, programmed, rwwBusy, host, touched, observed>>

PageWrite ==
  /\ pc = "write"
  /\ programmed' = programmed \cup {PageOf(address)}
  /\ erased' = erased \ {PageOf(address)}
  /\ pageBuffer' = <<>>
  /\ rwwBusy' = TRUE
  /\ pc' = "rww"
  /\ UNCHANGED <<locals, regs, host, touched, observed>>

RwwEnable ==
  /\ pc = "rww"
  /\ rwwBusy' = FALSE
  /\ pc' = "advance"
  /\ UNCHANGED <<locals, regs, erased, programmed, pageBuffer, host, touched, observed>>

Advance ==
  /\ pc = "advance"
  /\ msgLength' = 2
  /\ address' = NextAddress(address)
  /\ pc' = "main"
  /\ UNCHANGED <<msgParseState, ii, c, isLeave, isTimeout, count, regs, flash, host,
                 touched, observed>>

Next ==
  \/ SaveResetCause
  \/ DisableInterrupts
  \/ ClearMCUSR
  \/ WatchdogChangeEnable
  \/ WatchdogOff
  \/ EnableInterrupts
  \/ InitUart
  \/ HostSend
  \/ ForLoop
  \/ MainLoopEnter
  \/ MainLoopExit
  \/ RecvByte
  \/ RecvRaw
  \/ RecvTimeout
  \/ ParseDone
  \/ PageErase
  \/ PageFill
  \/ PageWrite
  \/ RwwEnable
  \/ Advance

Spec == Init /\ [][Next]_vars

TypeOK ==
  /\ address \in 0 .. FLASHEND
  /\ msgLength \in 0 .. UIntModulus - 1
  /\ isTimeout \in {0, 1}
  /\ isLeave \in {0, 1}
  /\ count \in 0 .. MAX_TIME_COUNT + 1

(***************************************************************************)
(* Properties.                                                             *)
(***************************************************************************)
StartupPcs == {"reset", "cli", "mcusr", "wdce", "wdoff", "sei", "uart"}

\* a page operation is about to touch, or is touching, program memory
PageOpPcs == {"erase", "fill", "write", "rww"}

\* C1: no page erase, page-buffer fill or page commit is ever issued for an
\* address at or above APP_END: every page erased or written, every word
\* staged in the page buffer and the target of every page operation under way
\* lie below the boundary, so the firmware's own region is never modified.
NoWriteAtOrAboveBoundary ==
  /\ \A p \in erased \cup programmed : p < APP_END
  /\ \A k \in 1 .. Len(pageBuffer) : pageBuffer[k] < APP_END
  /\ pc \in PageOpPcs => address < APP_END

\* the page operation has committed the last page below the boundary
LastPageBelowBoundaryWritten ==
  /\ pc = "rww"
  /\ address = APP_END - SPM_PAGESIZE
  /\ address \in programmed

\* C7 as claimed: after a page write the cursor is the previous cursor plus
\* one page width, reset to the midpoint exactly when that sum exceeds APP_END.
CursorWrapsWhenSumExceedsBoundary ==
  [][(pc = "advance" /\ pc' = "main") =>
       address' = IF address + SPM_PAGESIZE > APP_END
                  THEN (FLASHEND + 1) \div 2
                  ELSE address + SPM_PAGESIZE]_vars

\* C7 amended: after a page write the cursor is the previous cursor plus one
\* page width, reset to the midpoint exactly when that sum reaches APP_END or
\* more, that is, when the page at the advanced cursor would not end below
\* APP_END + 1.
CursorWrapsWhenSumReachesBoundary ==
  [][(pc = "advance" /\ pc' = "main") =>
       address' = IF address + SPM_PAGESIZE >= APP_END
                  THEN (FLASHEND + 1) \div 2
                  ELSE address + SPM_PAGESIZE]_vars

\* the cursor has been reset to the midpoint after the last page was written
CursorWrapped ==
  /\ pc = "main"
  /\ address = (FLASHEND + 1) \div 2
  /\ (APP_END - SPM_PAGESIZE) \in programmed

\* C10: MCUSR is copied to GPIOR0 exactly once per reset, before MCUSR or
\* WDTCSR is written, and the watchdog is disabled before the first byte is
\* read from the serial link.
ResetCauseCapturedFirst ==
  /\ gpior0Writes <= 1
  /\ (MCUSR # resetCause \/ WDTCSR # (IF resetCause = WDRF THEN WDE ELSE 0))
       => (gpior0Writes = 1 /\ GPIOR0 = resetCause)
  /\ pc \notin StartupPcs => (gpior0Writes = 1 /\ GPIOR0 = resetCause)
  /\ pc = "parse" => (BitAnd(WDTCSR, WDE) = 0 /\ WDTCSR = 0)

\* after a watchdog reset the firmware polls for its first byte
FirstReadAfterWatchdogReset ==
  /\ pc = "parse"
  /\ ParseCondition
  /\ resetCause = WDRF
  /\ GPIOR0 = WDRF
  /\ MCUSR = 0
  /\ WDTCSR = 0
  /\ txn = <<>>

(***************************************************************************)
(* The protocol the firmware documents (STK500v2), stated on the host's    *)
(* transmission txn and the bytes of it the firmware has received.         *)
(***************************************************************************)
LeaveFrames == {Frame(s, <<CMD_LEAVE_PROGMODE_ISP>>) : s \in Seqs}
ChipEraseFrames == {Frame(s, <<CMD_CHIP_ERASE_ISP>>) : s \in Seqs}
ProgramPageFrames == {Frame(s, <<CMD_PROGRAM_FLASH_ISP>>) : s \in Seqs}

\* the firmware waits in recchar_timeout for a byte
Polling == pc = "parse" /\ ParseCondition

\* a checksum-valid frame of txn ends with its n-th byte
FrameEndsAt(n) ==
  \E k \in 1 .. n : IsGoodFrame(SubSeq(txn, k, n))

\* C2: once a byte wait has expired and the bootloader loop has ended, control
\* has been transferred to the application entry address, exactly once, and
\* no byte was sent on the serial link.
TimeoutTransfersControl ==
  (isTimeout = 1 /\ pc = "for") => (appStarts = 1 /\ sent = <<>>)

\* C3: program memory is erased or written only as the result of a complete,
\* validated frame carrying a program-memory-page command: while a page
\* operation is under way the host's transmission is such a frame, received
\* to its last byte.  (The firmware keeps no session mode to state the rest.)
FlashOnlyByProgramPageFrame ==
  pc \in PageOpPcs => (txn \in ProgramPageFrames /\ wire = <<>>)

\* C4: the reader reaches ST_PROCESS only at the checksum byte of a frame
\* whose checksum is the exclusive-or of the preceding bytes; a frame with a
\* wrong checksum byte never reaches ST_PROCESS and leaves the reader in
\* ST_START.
ReaderCompletesOnlyValidFrames ==
  txn # <<>> =>
    /\ \A n \in completedAt : FrameEndsAt(n)
    /\ (\E f \in GoodFrames : txn = Corrupt(f, Len(f))) =>
         /\ completedAt = {}
         /\ (wire = <<>> /\ pc = "parse") => msgParseState = ST_START

\* C5: a frame with a single corrupted byte does not reach ST_PROCESS, the
\* reader is in ST_START at the first byte of the well-formed frame that
\* follows, and that frame reaches ST_PROCESS at its last byte.
CorruptionDoesNotDesynchronise ==
  txn \in Retries =>
    LET first == Len(txn) \div 2 IN
      /\ completedAt \cap (1 .. first) = {}
      /\ (Received = first /\ pc = "parse") => msgParseState = ST_START
      /\ Received = Len(txn) => Len(txn) \in completedAt

\* C6: for every request frame the reader completed and the firmware has
\* processed, a response frame with the request's sequence number was sent.
ResponseEchoesSequenceNumber ==
  (txn \in GoodFrames /\ completedAt # {} /\ pc = "main") =>
    /\ Len(sent) >= 2
    /\ sent[1] = MESSAGE_START
    /\ sent[2] = txn[2]

\* C8: once a leave-programming-mode frame has been received, the firmware
\* does not wait for further bytes: it sets isLeave, sends the response, ends
\* the bootloader loop and transfers control to the application.
LeaveEndsBootloader ==
  (txn \in LeaveFrames /\ wire = <<>>) =>
    /\ ~Polling
    /\ pc \in {"main", "for"} => (isLeave = 1 /\ sent # <<>>)
    /\ pc = "for" => appStarts = 1

\* C9: a chip-erase frame, received to its last byte, has caused no erase of
\* any flash page, and when the firmware then polls for the next frame the
\* response it sent carries the status "command failed".
ChipEraseFailsWithoutErasing ==
  (txn \in ChipEraseFrames /\ wire = <<>>) =>
    /\ ~touched
    /\ Polling =>
         /\ Len(sent) >= 7
         /\ sent[6] = CMD_CHIP_ERASE_ISP
         /\ sent[7] = STATUS_CMD_FAILED

(***************************************************************************)
(* Start-up registers, time-outs, the page operation, the reader's states. *)
(***************************************************************************)
\* C11: the start-up sequence does not clear the reset status flags: MCUSR
\* holds the value it held at reset, for the application to read and clear.
ResetStatusLeftForApplication ==
  MCUSR = resetCause

\* C12: a timed-out read abandons the frame: once the byte wait has expired
\* no flash page is erased or written and the device cursor does not change.
TimeoutAbandonsFrame ==
  [][isTimeout = 1 =>
       (erased' = erased /\ programmed' = programmed /\ address' = address)]_vars

\* C13: every page operation is erase of the page at the cursor, then
\* SPM_PAGESIZE/2 word fills at cursor, cursor+2, ..., cursor+SPM_PAGESIZE-2,
\* all inside that page, then one commit of that page, then re-enable of read
\* access; a commit is preceded by the erase of the same page, and read access
\* is enabled again before the next byte is read.
PageOperationSequence ==
  /\ erased \subseteq {PageOf(address)}
  /\ pc = "fill" =>
       /\ erased = {PageOf(address)}
       /\ pageBuffer = <<>>
       /\ rwwBusy
  /\ pc = "write" =>
       /\ erased = {PageOf(address)}
       /\ Len(pageBuffer) = SPM_PAGESIZE \div 2
       /\ \A k \in 1 .. Len(pageBuffer) :
            /\ pageBuffer[k] = address + 2 * (k - 1)
            /\ PageOf(pageBuffer[k]) = PageOf(address)
  /\ pc = "rww" =>
       /\ erased = {}
       /\ PageOf(address) \in programmed
       /\ pageBuffer = <<>>
       /\ rwwBusy
  /\ pc \notin PageOpPcs =>
       /\ erased = {}
       /\ pageBuffer = <<>>
       /\ ~rwwBusy

\* the page buffer holds a full page, staged for the second page of the walk
PageStaged ==
  /\ pc = "write"
  /\ address = InitAddress + SPM_PAGESIZE
  /\ Len(pageBuffer) = SPM_PAGESIZE \div 2
  /\ InitAddress \in programmed

\* C14: the reader visits START, SEQ, LEN_HI, LEN_LO, TOKEN, DATA (skipped for
\* length 0), CHECKSUM, COMPLETE in this order: every change of msgParseState
\* is a step of that order (or the return to START), so that the byte after
\* the start marker is taken as the sequence number.
ReaderStateOrder ==
  [][msgParseState' # msgParseState =>
       <<msgParseState, msgParseState'>> \in
         {<<ST_START, ST_GET_SEQ_NUM>>, <<ST_GET_SEQ_NUM, ST_MSG_SIZE_1>>,
          <<ST_MSG_SIZE_1, ST_MSG_SIZE_2>>, <<ST_MSG_SIZE_2, ST_GET_TOKEN>>,
          <<ST_GET_TOKEN, ST_GET_DATA>>, <<ST_GET_TOKEN, ST_GET_CHECK>>,
          <<ST_GET_DATA, ST_GET_CHECK>>, <<ST_GET_CHECK, ST_PROCESS>>,
          <<ST_GET_CHECK, ST_START>>, <<ST_PROCESS, ST_START>>}]_vars

\* C15: in ST_START a received byte other than the start marker leaves the
\* reader in ST_START and changes neither the cursor, the flash, the stored
\* length nor the exit flags, and nothing is sent.
NoiseInStartIsDiscarded ==
  [][(Polling /\ msgParseState = ST_START /\ isTimeout' = 0 /\ c' # MESSAGE_START)
       => /\ msgParseState' = ST_START
          /\ UNCHANGED <<address, erased, programmed, pageBuffer, msgLength,
                         isLeave, isTimeout, sent, appStarts>>]_vars

\* a frame whose start marker was corrupted: its first byte was received as
\* noise, after an earlier page operation had left a stored length
NoiseReceivedInStart ==
  /\ Polling
  /\ msgParseState = ST_START
  /\ txn # <<>>
  /\ txn[1] # MESSAGE_START
  /\ Received = 1
  /\ c = txn[1]
  /\ msgLength = 2

\* C16: of a well-formed frame with declared length L > 0 the reader consumes
\* the L payload bytes and leaves ST_GET_DATA: once the frame is received to
\* its last byte the reader has reached ST_PROCESS at that byte.
DeclaredLengthIsConsumed ==
  (txn \in GoodFrames /\ wire = <<>> /\ isTimeout = 0) =>
    /\ Len(txn) \in completedAt
    /\ ~(Polling /\ msgParseState = ST_GET_DATA)

\* C19: the cursor is a multiple of SPM_PAGESIZE between (FLASHEND+1)/2 and
\* APP_END - SPM_PAGESIZE, the sums formed from it stay below 2^32, and no
\* page of the lower half of program memory is erased or written.
CursorInUpperApplicationHalf ==
  /\ address % SPM_PAGESIZE = 0
  /\ (FLASHEND + 1) \div 2 <= address
  /\ address <= APP_END - SPM_PAGESIZE
  /\ (address + 2 * SPM_PAGESIZE) \div UIntModulus < UIntModulus
  /\ \A p \in erased \cup programmed : p >= (FLASHEND + 1) \div 2
  /\ \A k \in 1 .. Len(pageBuffer) : pageBuffer[k] >= (FLASHEND + 1) \div 2

\* the walk has come round: the first page is erased a second time
FirstPageErasedAgain ==
  /\ pc = "fill"
  /\ address = (FLASHEND + 1) \div 2
  /\ (APP_END - SPM_PAGESIZE) \in programmed

(***************************************************************************)
(* Interrupts, the bounded byte wait, the time-out flag.                   *)
(***************************************************************************)
\* C17: global interrupts are disabled throughout every page operation: in no
\* reachable state is the interrupt-enable flag set while an erase / fill /
\* commit / re-enable sequence is in progress.
InterruptsOffInPageOperation ==
  pc \in PageOpPcs => SREG_I = 0

\* C18: every byte read of the loop is bounded: the poll counter of a call
\* never passes MAX_TIME_COUNT + 1; a call that returned a byte found it with
\* the counter, started from zero for that byte, at most MAX_TIME_COUNT; the
\* timeout flag is set exactly by a call whose counter exceeded MAX_TIME_COUNT,
\* and that call returned 0.
ByteWaitIsBounded ==
  /\ count \in 0 .. MAX_TIME_COUNT + 1
  /\ isTimeout = 1 <=> count > MAX_TIME_COUNT
  /\ isTimeout = 1 => c = 0
  /\ (isTimeout = 0 /\ txn # <<>> /\ Received > 0) => c = txn[Received]

\* the second byte of a transmission was returned at the last poll allowed
ByteReturnedAtLastPoll ==
  /\ pc = "parse"
  /\ isTimeout = 0
  /\ count = MAX_TIME_COUNT
  /\ Received = 2
  /\ c = txn[2]

\* C20: the timeout flag is absorbing: once isTimeout is set it stays set, no
\* further byte is read (c, the poll counter and the link's pending bytes are
\* left alone) and the reader starts no other frame, whatever the host sends.
TimeoutIsAbsorbing ==
  [][isTimeout = 1 =>
       /\ isTimeout' = 1
       /\ c' = c
       /\ count' = count
       /\ msgParseState' = msgParseState
       /\ ii' = ii
       /\ wire # <<>> => wire' = wire]_vars

\* the host started a transmission after the page operation that followed the
\* timeout: none of it has been read
SentAfterTimeoutUnread ==
  /\ isTimeout = 1
  /\ pc = "for"
  /\ wire # <<>>
  /\ wire = txn
  /\ ~touched
  /\ programmed # {}

====
